---- MODULE Spec2Model ----
(***************************************************************************)
(* dpharmd: an HTTP server that stages an uploaded artifact and runs the   *)
(* Android (adb) or iOS (tar, xcodebuild) test tools behind one mutex.     *)
(* Every request is a goroutine running handler; the steps of a goroutine  *)
(* that touch the file system, the working directory, the mutex or an      *)
(* external command are separate actions, so that goroutines interleave    *)
(* there.  Two builds of the program are in the repository: src/main.go,   *)
(* whose handler answers 500 to test_type=ios, and src/unnamed/part_000,   *)
(* which adds runIOSTest.                                                  *)
(***************************************************************************)
EXTENDS Integers, Sequences, FiniteSets, TLC

\* ---- bounds ------------------------------------------------------------
NumReq == 3          \* concurrent requests (goroutines)
NumSuffix == 2       \* distinct values RandomAlphaNumericString can return

Req == 1..NumReq
Suffix == 1..NumSuffix

\* ---- strings -----------------------------------------------------------
\* A string is a tuple of characters, so that strings.Split is computed.
RECURSIVE Split(_, _)
Split(s, sep) ==
    IF \E i \in 1..Len(s) : s[i] = sep
    THEN LET i == CHOOSE k \in 1..Len(s) :
                      s[k] = sep /\ \A j \in 1..(k - 1) : s[j] # sep
         IN  <<SubSeq(s, 1, i - 1)>> \o Split(SubSeq(s, i + 1, Len(s)), sep)
    ELSE <<s>>

\* ---- requests ----------------------------------------------------------
secret == "s3cret"
testTypeAndroid == "android"
testTypeIOS == "ios"

\* The requests a client may send.  Authorization "" is an absent header.
Requests ==
    LET R(a, q, t, p, d, s, b) ==
          [auth |-> a, queryOK |-> q, test_type |-> t, test_package |-> p,
           test_destination |-> d, test_schemes |-> s, bodyEmpty |-> b]
    IN  { R("", TRUE, "android", "pkg", "", <<>>, FALSE),
          R("wrong", TRUE, "ios", "", "dest", <<"A", ",", "B">>, FALSE),
          R("wrong", FALSE, "", "", "", <<>>, TRUE),
          R(secret, FALSE, "web", "pkg", "", <<>>, FALSE),
          R(secret, TRUE, "", "pkg", "dest", <<"A">>, FALSE),
          R(secret, TRUE, "web", "pkg", "dest", <<"A">>, FALSE),
          R(secret, TRUE, "android", "", "", <<>>, FALSE),
          R(secret, TRUE, "android", "pkg", "", <<>>, FALSE),
          R(secret, TRUE, "ios", "", "", <<>>, FALSE),
          R(secret, TRUE, "ios", "", "", <<"A">>, FALSE),
          R(secret, TRUE, "ios", "", "dest", <<>>, FALSE),
          R(secret, TRUE, "ios", "", "dest", <<"A">>, FALSE),
          R(secret, TRUE, "ios", "", "dest", <<"A", ",", "B">>, FALSE),
          R(secret, TRUE, "ios", "", "dest", <<"A", ",">>, TRUE) }

NoRequest ==
    [auth |-> "", queryOK |-> TRUE, test_type |-> "", test_package |-> "",
     test_destination |-> "", test_schemes |-> <<>>, bodyEmpty |-> TRUE]

\* ---- directories ---------------------------------------------------------
StartDir == <<"start">>      \* where the process was started
TmpDir == <<"tmp">>          \* os.TempDir()
DirOf(d) == <<"dir", d>>     \* the directory created by request d

\* ---- state -------------------------------------------------------------
VARIABLES
    iosRunner,   \* TRUE: the build with runIOSTest; FALSE: src/main.go
    req,         \* req[r]: the request goroutine r serves
    pc,          \* pc[r]: where goroutine r is
    status,      \* status[r]: the status line written, 0 while none is
    body,        \* body[r]: what was written to the response, in order
    headers,     \* headers[r]: the calls of w.WriteHeader, each with its
                 \* code and whether the status line was already sent
    name,        \* name[r]: the random suffix r drew, 0 before
    fileNil,     \* fileNil[r]: r's apkFile/sourceFile is a nil *os.File
    defers,      \* defers[r]: r's deferred calls, oldest first
    idx,         \* idx[r]: position of the scheme loop
    testFailed,  \* testFailed[r]
    testMu,      \* the mutex: TRUE while locked
    cwd,         \* process working directory: StartDir, TmpDir, or
                 \* DirOf(d), the directory request d made (it may have
                 \* been removed since)
    apkFiles,    \* apkFiles[s]: who created <tmp>/test_<s>.apk, 0 if absent
    dirs,        \* dirs[d]: path under <tmp> of the directory request d
                 \* made, <<>> when it is not on disk
    srcIn,       \* srcIn[d]: who created source.tgz in d's directory, or 0
    extracted,   \* <<where, r>>: r's archive content extracted in `where`
    runDir,      \* runDir[r]: working directory of r's running command,
                 \* StartDir while r runs none
    effects,     \* effects[r]: the kinds of side effect r has performed
    cmdLog       \* cmdLog[r]: the external commands r ran, with outcome

locals == <<req, pc, status, body, headers, name, fileNil, defers, idx, testFailed,
           runDir>>
disk == <<cwd, apkFiles, dirs, srcIn, extracted>>
ghost == <<effects, cmdLog>>
vars == <<iosRunner, locals, testMu, disk, ghost>>

\* The server has just started; goroutines 1..n will serve a request.
Start(n) ==
    /\ req = [r \in Req |-> NoRequest]
    /\ pc = [r \in Req |-> IF r <= n THEN "idle" ELSE "absent"]
    /\ status = [r \in Req |-> 0]
    /\ body = [r \in Req |-> <<>>]
    /\ headers = [r \in Req |-> <<>>]
    /\ name = [r \in Req |-> 0]
    /\ fileNil = [r \in Req |-> FALSE]
    /\ defers = [r \in Req |-> <<>>]
    /\ idx = [r \in Req |-> 0]
    /\ testFailed = [r \in Req |-> FALSE]
    /\ runDir = [r \in Req |-> StartDir]
    /\ testMu = FALSE
    /\ cwd = StartDir
    /\ apkFiles = [s \in Suffix |-> 0]
    /\ dirs = [d \in Req |-> <<>>]
    /\ srcIn = [d \in Req |-> 0]
    /\ extracted = {}
    /\ effects = [r \in Req |-> {}]
    /\ cmdLog = [r \in Req |-> <<>>]

\* Either build, NumReq - 1 requests of any kind.
Init == iosRunner \in BOOLEAN /\ Start(NumReq - 1)

\* The build with runIOSTest, NumReq requests.
InitIOS == iosRunner = TRUE /\ Start(NumReq)

\* ---- the response writer ------------------------------------------------
\* w.WriteHeader(code) then w.Write of each token of toks; code 0 is a path
\* that calls Write only, where net/http sends 200 with the first Write.
Respond(r, code, toks) ==
    /\ status' = [status EXCEPT ![r] =
                     IF @ # 0 THEN @
                     ELSE IF code # 0 THEN code
                     ELSE IF toks # <<>> THEN 200 ELSE 0]
    /\ body' = [body EXCEPT ![r] = @ \o toks]
    /\ headers' = [headers EXCEPT ![r] =
                      IF code = 0 THEN @
                      ELSE Append(@, [code |-> code, late |-> status[r] # 0])]

\* What is written to a response: a text, with the scheme and destination
\* formatted into it where the text has them.
Line(text) == [text |-> text, scheme |-> <<>>, dest |-> ""]
TestStartMsg(scheme, dest) ==
    [text |-> "ios: Testing scheme %q on destination %q",
     scheme |-> scheme, dest |-> dest]

\* The status the client sees once the handler has returned.
FinalStatus(r) == IF status[r] = 0 THEN 200 ELSE status[r]

\* return: the deferred calls run next, newest first; with none the
\* goroutine is finished.
AfterReturn(ds) == IF ds = <<>> THEN "done" ELSE "ret"

\* The deferred calls.
DeferRemove == "os.Remove"
DeferRemoveAll == "os.RemoveAll"
DeferUnlock == "testMu.Unlock"

\* ---- handler -------------------------------------------------------------
\* What a function answers when it stops at a check: the status, the body
\* lines, and where the goroutine goes on.
Answer(code, lines) == [code |-> code, lines |-> lines, to |-> "done"]
GoOn(to) == [code |-> 0, lines |-> <<>>, to |-> to]

\* Dispatch parsing the query before it looks at the secret.
DispatchParseFirst(q) ==
    IF ~q.queryOK THEN Answer(400, <<Line("err:ParseQuery")>>)
    ELSE IF q.auth # secret THEN Answer(401, <<>>)
    ELSE IF q.test_type = testTypeAndroid THEN GoOn("runAndroidTest")
    ELSE IF q.test_type = testTypeIOS
    THEN IF iosRunner THEN GoOn("runIOSTest") ELSE Answer(500, <<>>)
    ELSE Answer(400, <<Line("must specify 'test_type'")>>)

\* Dispatch taking any other test_type for android.
DispatchDefaultAndroid(q) ==
    IF q.auth # secret THEN Answer(401, <<>>)
    ELSE IF ~q.queryOK THEN Answer(400, <<Line("err:ParseQuery")>>)
    ELSE IF q.test_type = testTypeIOS
    THEN IF iosRunner THEN GoOn("runIOSTest") ELSE Answer(500, <<>>)
    ELSE GoOn("runAndroidTest")

\* handler: the Authorization header, the query, the dispatch on test_type.
Dispatch(q) ==
    IF q.auth # secret THEN Answer(401, <<>>)
    ELSE IF ~q.queryOK THEN Answer(400, <<Line("err:ParseQuery")>>)
    ELSE IF q.test_type = testTypeAndroid THEN GoOn("runAndroidTest")
    ELSE IF q.test_type = testTypeIOS
    THEN IF iosRunner THEN GoOn("runIOSTest") ELSE Answer(500, <<>>)
    ELSE Answer(400, <<Line("must specify 'test_type'")>>)

\* AndroidCheck without the check.
AndroidCheckNone(q) == GoOn("a_open")

\* runAndroidTest: the test_package check.
AndroidCheck(q) ==
    IF q.test_package = ""
    THEN Answer(400, <<Line("must specify 'test_package'")>>)
    ELSE GoOn("a_open")

\* runIOSTest: the test_destination and test_schemes checks.
IOSCheck(q) ==
    IF q.test_destination = ""
    THEN Answer(400, <<Line("must specify 'test_destination'")>>)
    ELSE IF q.test_schemes = <<>>
    THEN Answer(400, <<Line("must specify 'test_schemes'")>>)
    ELSE GoOn("i_chdir")

\* The goroutine acts on the outcome a of a check.
Act(r, a) ==
    /\ pc' = [pc EXCEPT ![r] = a.to]
    /\ IF a.to = "done"
       THEN Respond(r, a.code, a.lines)
       ELSE UNCHANGED <<status, body, headers>>

\* Request q arrives and handler runs up to its dispatch.  Goroutines are
\* numbered in the order their requests arrive.
handler(r, q) ==
    /\ pc[r] = "idle"
    /\ \A o \in Req : o < r => pc[o] # "idle"
    /\ req' = [req EXCEPT ![r] = q]
    /\ Act(r, Dispatch(q))
    /\ UNCHANGED <<iosRunner, name, fileNil, defers, idx, testFailed, runDir,
                   testMu, disk, ghost>>

\* ---- runAndroidTest ------------------------------------------------------
AndroidValidate(r) ==
    /\ pc[r] = "runAndroidTest"
    /\ Act(r, AndroidCheck(req[r]))
    /\ UNCHANGED <<iosRunner, req, name, fileNil, defers, idx, testFailed,
                   runDir, testMu, disk, ghost>>

\* RandomAlphaNumericString, then os.OpenFile with O_CREATE|O_EXCL, then
\* `defer os.Remove(apkFile.Name())`.  Only an error that is IsExist is
\* checked; on any other error apkFile is nil and apkFile.Name() panics
\* before anything is deferred.
AndroidOpen(r) ==
    /\ pc[r] = "a_open"
    /\ \E s \in Suffix :
          /\ name' = [name EXCEPT ![r] = s]
          /\ IF apkFiles[s] # 0
             THEN /\ Respond(r, 400, <<Line("err:file exists")>>)
                  /\ pc' = [pc EXCEPT ![r] = "done"]
                  /\ UNCHANGED <<apkFiles, defers, effects>>
             ELSE \/ /\ apkFiles' = [apkFiles EXCEPT ![s] = r]
                     /\ defers' = [defers EXCEPT ![r] = <<DeferRemove>>]
                     /\ effects' = [effects EXCEPT ![r] = @ \cup {"file"}]
                     /\ pc' = [pc EXCEPT ![r] = "a_read"]
                     /\ UNCHANGED <<status, body, headers>>
                  \/ /\ pc' = [pc EXCEPT ![r] = "panicked"]
                     /\ UNCHANGED <<status, body, headers, apkFiles, defers, effects>>
    /\ UNCHANGED <<iosRunner, req, fileNil, idx, testFailed, runDir, testMu, cwd,
                   dirs, srcIn, extracted, cmdLog>>

\* AndroidRead made to wait until the mutex is free.
AndroidReadSerialized(r) ==
    /\ pc[r] = "a_read"
    /\ ~testMu
    /\ \/ /\ pc' = [pc EXCEPT ![r] = "a_lock"]
          /\ UNCHANGED <<status, body, headers>>
       \/ /\ Respond(r, 400, <<Line("err:ReadAll")>>)
          /\ pc' = [pc EXCEPT ![r] = AfterReturn(defers[r])]
    /\ UNCHANGED <<iosRunner, req, name, fileNil, defers, idx, testFailed, runDir,
                   testMu, disk, ghost>>

\* ioutil.ReadAll(io.TeeReader(r.Body, apkFile)): the body is copied to
\* the file; a read or write error is answered 400.
AndroidRead(r) ==
    /\ pc[r] = "a_read"
    /\ \/ /\ pc' = [pc EXCEPT ![r] = "a_lock"]
          /\ UNCHANGED <<status, body, headers>>
       \/ /\ Respond(r, 400, <<Line("err:ReadAll")>>)
          /\ pc' = [pc EXCEPT ![r] = AfterReturn(defers[r])]
    /\ UNCHANGED <<iosRunner, req, name, fileNil, defers, idx, testFailed, runDir,
                   testMu, disk, ghost>>

\* AndroidLock without the wait for the mutex.
AndroidLockNoWait(r) ==
    /\ pc[r] = "a_lock"
    /\ testMu' = TRUE
    /\ defers' = [defers EXCEPT ![r] = Append(@, DeferUnlock)]
    /\ effects' = [effects EXCEPT ![r] = @ \cup {"lock"}]
    /\ pc' = [pc EXCEPT ![r] = "a_install"]
    /\ UNCHANGED <<iosRunner, req, status, body, headers, name, fileNil, idx,
                   testFailed, runDir, disk, cmdLog>>

\* testMu.Lock(); defer testMu.Unlock()
AndroidLock(r) ==
    /\ pc[r] = "a_lock"
    /\ ~testMu
    /\ testMu' = TRUE
    /\ defers' = [defers EXCEPT ![r] = Append(@, DeferUnlock)]
    /\ effects' = [effects EXCEPT ![r] = @ \cup {"lock"}]
    /\ pc' = [pc EXCEPT ![r] = "a_install"]
    /\ UNCHANGED <<iosRunner, req, status, body, headers, name, fileNil, idx,
                   testFailed, runDir, disk, cmdLog>>

\* exec.Command("adb", "install", "-r", apkFile.Name()) starts.
AndroidInstallStart(r) ==
    /\ pc[r] = "a_install"
    /\ pc' = [pc EXCEPT ![r] = "a_install_run"]
    /\ effects' = [effects EXCEPT ![r] = @ \cup {"cmd"}]
    /\ UNCHANGED <<iosRunner, req, status, body, headers, name, fileNil, defers, idx,
                   testFailed, runDir, testMu, disk, cmdLog>>

\* AndroidInstallEnd releasing the mutex once the install is over.
AndroidInstallEndUnlocks(r) ==
    /\ pc[r] = "a_install_run"
    /\ testMu' = FALSE
    /\ \E ok \in BOOLEAN :
          /\ ok => apkFiles[name[r]] # 0
          /\ cmdLog' = [cmdLog EXCEPT ![r] =
                           Append(@, [cmd |-> "install", arg |-> <<>>, ok |-> ok])]
          /\ IF ok
             THEN /\ pc' = [pc EXCEPT ![r] = "a_instr"]
                  /\ UNCHANGED <<status, body, headers>>
             ELSE /\ Respond(r, 400,
                              <<Line("err:install"), Line("\n"), Line("out:install")>>)
                  /\ pc' = [pc EXCEPT ![r] = AfterReturn(defers[r])]
    /\ UNCHANGED <<iosRunner, req, name, fileNil, defers, idx, testFailed,
                   runDir, disk, effects>>

\* AndroidInstallEnd going on to the instrument command after a failure.
AndroidInstallEndContinues(r) ==
    /\ pc[r] = "a_install_run"
    /\ \E ok \in BOOLEAN :
          /\ ok => apkFiles[name[r]] # 0
          /\ cmdLog' = [cmdLog EXCEPT ![r] =
                           Append(@, [cmd |-> "install", arg |-> <<>>, ok |-> ok])]
          /\ IF ok
             THEN /\ pc' = [pc EXCEPT ![r] = "a_instr"]
                  /\ UNCHANGED <<status, body, headers>>
             ELSE /\ Respond(r, 400, 
                              <<Line("err:install"), Line("\n"), Line("out:install")>>)
                  /\ pc' = [pc EXCEPT ![r] = "a_instr"]
    /\ UNCHANGED <<iosRunner, req, name, fileNil, defers, idx, testFailed, runDir,
                   testMu, disk, effects>>

\* CombinedOutput returns: a failed install is answered 400 with the error
\* and the output.  A missing file makes adb fail.
AndroidInstallEnd(r) ==
    /\ pc[r] = "a_install_run"
    /\ \E ok \in BOOLEAN :
          /\ ok => apkFiles[name[r]] # 0
          /\ cmdLog' = [cmdLog EXCEPT ![r] =
                           Append(@, [cmd |-> "install", arg |-> <<>>, ok |-> ok])]
          /\ IF ok
             THEN /\ pc' = [pc EXCEPT ![r] = "a_instr"]
                  /\ UNCHANGED <<status, body, headers>>
             ELSE /\ Respond(r, 400, 
                              <<Line("err:install"), Line("\n"), Line("out:install")>>)
                  /\ pc' = [pc EXCEPT ![r] = AfterReturn(defers[r])]
    /\ UNCHANGED <<iosRunner, req, name, fileNil, defers, idx, testFailed, runDir,
                   testMu, disk, effects>>

\* exec.Command("adb", "shell", "am", "instrument", "-w", ...) starts.
AndroidInstrumentStart(r) ==
    /\ pc[r] = "a_instr"
    /\ pc' = [pc EXCEPT ![r] = "a_instr_run"]
    /\ UNCHANGED <<iosRunner, req, status, body, headers, name, fileNil, defers, idx,
                   testFailed, runDir, testMu, disk, ghost>>

\* AndroidInstrumentEnd without the WriteHeader(400) of the failure.
AndroidInstrumentEndNoStatus(r) ==
    /\ pc[r] = "a_instr_run"
    /\ \E ok \in BOOLEAN :
          /\ cmdLog' = [cmdLog EXCEPT ![r] =
                           Append(@, [cmd |-> "instrument", arg |-> <<>>, ok |-> ok])]
          /\ IF ok
             THEN Respond(r, 0, <<Line("out:instrument")>>)
             ELSE Respond(r, 0, <<Line("err:instrument"), Line("\n"),
                                  Line("out:instrument")>>)
          /\ pc' = [pc EXCEPT ![r] = AfterReturn(defers[r])]
    /\ UNCHANGED <<iosRunner, req, name, fileNil, defers, idx, testFailed, runDir,
                   testMu, disk, effects>>

\* CombinedOutput returns: failure is answered 400 with error and output,
\* success writes the output.
AndroidInstrumentEnd(r) ==
    /\ pc[r] = "a_instr_run"
    /\ \E ok \in BOOLEAN :
          /\ cmdLog' = [cmdLog EXCEPT ![r] =
                           Append(@, [cmd |-> "instrument", arg |-> <<>>, ok |-> ok])]
          /\ IF ok
             THEN Respond(r, 0, <<Line("out:instrument")>>)
             ELSE Respond(r, 400, <<Line("err:instrument"), Line("\n"),
                                    Line("out:instrument")>>)
          /\ pc' = [pc EXCEPT ![r] = AfterReturn(defers[r])]
    /\ UNCHANGED <<iosRunner, req, name, fileNil, defers, idx, testFailed, runDir,
                   testMu, disk, effects>>

\* ---- the file system under os.TempDir() -----------------------------------
\* The path, below <tmp>, of directory c; Gone when c is no longer on disk
\* (a working directory that was removed) or is the start directory.
Gone == <<0>>
PathOf(c) ==
    IF c = TmpDir THEN <<>>
    ELSE IF c = StartDir THEN Gone
    ELSE IF dirs[c[2]] = <<>> THEN Gone ELSE dirs[c[2]]

\* The requests whose directory is at path p.
DirAt(p) == {d \in Req : dirs[d] # <<>> /\ dirs[d] = p}

IsPrefix(p, q) == Len(p) <= Len(q) /\ SubSeq(q, 1, Len(p)) = p

\* os.RemoveAll(sourceDir), a path relative to the working directory: the
\* directories it removes.  A path that does not exist removes nothing.
RemoveAllTargets(s) ==
    IF PathOf(cwd) = Gone THEN {}
    ELSE {d \in Req : dirs[d] # <<>> /\ IsPrefix(PathOf(cwd) \o <<s>>, dirs[d])}

\* ---- deferred calls, and the end of the goroutine -------------------------
\* pc "ret": the function returned; "ret_panic": it panicked.  Deferred
\* calls run newest first, then the goroutine ends ("done", or "panicked":
\* net/http recovers the panic and drops the connection without a response).
Returning(r) == pc[r] \in {"ret", "ret_panic"} /\ defers[r] # <<>>
Top(r) == defers[r][Len(defers[r])]
Pop(r) ==
    /\ defers' = [defers EXCEPT ![r] = SubSeq(@, 1, Len(@) - 1)]
    /\ pc' = [pc EXCEPT ![r] =
                 IF Len(defers[r]) > 1 THEN @
                 ELSE IF @ = "ret" THEN "done" ELSE "panicked"]

\* deferred testMu.Unlock()
RunDeferUnlock(r) ==
    /\ Returning(r)
    /\ Top(r) = DeferUnlock
    /\ testMu' = FALSE
    /\ Pop(r)
    /\ UNCHANGED <<iosRunner, req, status, body, headers, name, fileNil, idx,
                   testFailed, runDir, disk, ghost>>

\* deferred os.Remove(apkFile.Name()): an absolute path.
RunDeferRemove(r) ==
    /\ Returning(r)
    /\ Top(r) = DeferRemove
    /\ apkFiles' = [apkFiles EXCEPT ![name[r]] = 0]
    /\ Pop(r)
    /\ UNCHANGED <<iosRunner, req, status, body, headers, name, fileNil, idx,
                   testFailed, runDir, testMu, cwd, dirs, srcIn, extracted,
                   ghost>>

\* deferred os.RemoveAll(sourceDir): sourceDir is the bare random name,
\* resolved against the working directory at the time of the call.
RunDeferRemoveAll(r) ==
    /\ Returning(r)
    /\ Top(r) = DeferRemoveAll
    /\ LET gone == RemoveAllTargets(name[r]) IN
          /\ dirs' = [d \in Req |-> IF d \in gone THEN <<>> ELSE dirs[d]]
          /\ srcIn' = [d \in Req |-> IF d \in gone THEN 0 ELSE srcIn[d]]
          /\ extracted' = {e \in extracted : \A d \in gone : e[1] # DirOf(d)}
    /\ Pop(r)
    /\ UNCHANGED <<iosRunner, req, status, body, headers, name, fileNil, idx,
                   testFailed, runDir, testMu, cwd, apkFiles, ghost>>

\* ---- runIOSTest ------------------------------------------------------------
testSchemes(r) == Split(req[r].test_schemes, ",")

IOSValidate(r) ==
    /\ pc[r] = "runIOSTest"
    /\ Act(r, IOSCheck(req[r]))
    /\ UNCHANGED <<iosRunner, req, name, fileNil, defers, idx, testFailed,
                   runDir, testMu, disk, ghost>>

\* IOSChdirTmp with the mutex locked first.
IOSChdirTmpLocked(r) ==
    /\ pc[r] = "i_chdir"
    /\ ~testMu
    /\ testMu' = TRUE
    /\ cwd' = TmpDir
    /\ defers' = [defers EXCEPT ![r] = Append(@, DeferUnlock)]
    /\ effects' = [effects EXCEPT ![r] = @ \cup {"lock", "chdir"}]
    /\ pc' = [pc EXCEPT ![r] = "i_mkdir"]
    /\ UNCHANGED <<iosRunner, req, status, body, headers, name, fileNil, idx,
                   testFailed, runDir, apkFiles, dirs, srcIn, extracted,
                   cmdLog>>

\* os.Chdir(os.TempDir())
IOSChdirTmp(r) ==
    /\ pc[r] = "i_chdir"
    /\ \/ /\ cwd' = TmpDir
          /\ effects' = [effects EXCEPT ![r] = @ \cup {"chdir"}]
          /\ pc' = [pc EXCEPT ![r] = "i_mkdir"]
          /\ UNCHANGED <<status, body, headers>>
       \/ /\ Respond(r, 500, <<Line("err:chdir")>>)
          /\ pc' = [pc EXCEPT ![r] = "done"]
          /\ UNCHANGED <<cwd, effects>>
    /\ UNCHANGED <<iosRunner, req, name, fileNil, defers, idx, testFailed,
                   runDir, testMu, apkFiles, dirs, srcIn, extracted,
                   cmdLog>>

\* RandomAlphaNumericString, then os.Mkdir(sourceDir), a path relative to
\* the working directory, then `defer os.RemoveAll(sourceDir)`.
IOSMkdir(r) ==
    /\ pc[r] = "i_mkdir"
    /\ \E s \in Suffix :
          /\ name' = [name EXCEPT ![r] = s]
          /\ IF PathOf(cwd) # Gone /\ DirAt(PathOf(cwd) \o <<s>>) = {}
             THEN /\ dirs' = [dirs EXCEPT ![r] = PathOf(cwd) \o <<s>>]
                  /\ defers' = [defers EXCEPT ![r] = <<DeferRemoveAll>>]
                  /\ effects' = [effects EXCEPT ![r] = @ \cup {"dir"}]
                  /\ pc' = [pc EXCEPT ![r] = "i_chdir2"]
                  /\ UNCHANGED <<status, body, headers>>
             ELSE /\ Respond(r, 500, <<Line("err:mkdir")>>)
                  /\ pc' = [pc EXCEPT ![r] = "done"]
                  /\ UNCHANGED <<dirs, defers, effects>>
    /\ UNCHANGED <<iosRunner, req, fileNil, idx, testFailed, runDir, testMu,
                   cwd, apkFiles, srcIn, extracted, cmdLog>>

\* os.Chdir(filepath.Join(dir, sourceDir)): an absolute path.
IOSChdirDir(r) ==
    /\ pc[r] = "i_chdir2"
    /\ IF DirAt(<<name[r]>>) # {}
       THEN /\ cwd' = DirOf(CHOOSE d \in DirAt(<<name[r]>>) : TRUE)
            /\ effects' = [effects EXCEPT ![r] = @ \cup {"chdir"}]
            /\ pc' = [pc EXCEPT ![r] = "i_open"]
            /\ UNCHANGED <<status, body, headers>>
       ELSE /\ Respond(r, 500, <<Line("err:chdir")>>)
            /\ pc' = [pc EXCEPT ![r] = AfterReturn(defers[r])]
            /\ UNCHANGED <<cwd, effects>>
    /\ UNCHANGED <<iosRunner, req, name, fileNil, defers, idx, testFailed,
                   runDir, testMu, apkFiles, dirs, srcIn, extracted,
                   cmdLog>>

\* os.OpenFile(<tmp>/sourceDir/source.tgz) with O_CREATE|O_EXCL.  Only an
\* error that is IsExist is checked; on any other error (the directory is
\* missing, or the system refuses) sourceFile is nil and the code goes on.
IOSOpen(r) ==
    /\ pc[r] = "i_open"
    /\ LET at == DirAt(<<name[r]>>) IN
       IF at = {}
       THEN /\ fileNil' = [fileNil EXCEPT ![r] = TRUE]
            /\ pc' = [pc EXCEPT ![r] = "i_read"]
            /\ UNCHANGED <<status, body, headers, srcIn, effects>>
       ELSE LET d == CHOOSE x \in at : TRUE IN
            IF srcIn[d] # 0
            THEN /\ Respond(r, 400, <<Line("err:file exists")>>)
                 /\ pc' = [pc EXCEPT ![r] = AfterReturn(defers[r])]
                 /\ UNCHANGED <<fileNil, srcIn, effects>>
            ELSE \/ /\ srcIn' = [srcIn EXCEPT ![d] = r]
                    /\ effects' = [effects EXCEPT ![r] = @ \cup {"file"}]
                    /\ pc' = [pc EXCEPT ![r] = "i_read"]
                    /\ UNCHANGED <<status, body, headers, fileNil>>
                 \/ /\ fileNil' = [fileNil EXCEPT ![r] = TRUE]
                    /\ pc' = [pc EXCEPT ![r] = "i_read"]
                    /\ UNCHANGED <<status, body, headers, srcIn, effects>>
    /\ UNCHANGED <<iosRunner, req, name, defers, idx, testFailed, runDir,
                   testMu, cwd, apkFiles, dirs, extracted, cmdLog>>

\* ioutil.ReadAll(io.TeeReader(r.Body, sourceFile)).  Writing to a nil
\* *os.File returns ErrInvalid; an empty body writes nothing.
IOSRead(r) ==
    /\ pc[r] = "i_read"
    /\ IF fileNil[r]
       THEN IF req[r].bodyEmpty
            THEN /\ pc' = [pc EXCEPT ![r] = "i_tar"]
                 /\ UNCHANGED <<status, body, headers>>
            ELSE /\ Respond(r, 400, <<Line("err:invalid argument")>>)
                 /\ pc' = [pc EXCEPT ![r] = AfterReturn(defers[r])]
       ELSE \/ /\ pc' = [pc EXCEPT ![r] = "i_tar"]
               /\ UNCHANGED <<status, body, headers>>
            \/ /\ ~req[r].bodyEmpty
               /\ Respond(r, 400, <<Line("err:ReadAll")>>)
               /\ pc' = [pc EXCEPT ![r] = AfterReturn(defers[r])]
    /\ UNCHANGED <<iosRunner, req, name, fileNil, defers, idx, testFailed,
                   runDir, testMu, disk, ghost>>

\* The owner of the file at <tmp>/sourceDir/source.tgz, 0 if there is none.
SourceFileAt(s) ==
    IF DirAt(<<s>>) = {} THEN 0 ELSE srcIn[CHOOSE d \in DirAt(<<s>>) : TRUE]

\* exec.Command("tar", "xf", sourceFile.Name()) starts, in the working
\* directory of the moment.  sourceFile.Name() panics on a nil file.
IOSTarStart(r) ==
    /\ pc[r] = "i_tar"
    /\ IF fileNil[r]
       THEN /\ pc' = [pc EXCEPT ![r] = "ret_panic"]
            /\ UNCHANGED <<runDir, effects>>
       ELSE /\ pc' = [pc EXCEPT ![r] = "i_tar_run"]
            /\ runDir' = [runDir EXCEPT ![r] = cwd]
            /\ effects' = [effects EXCEPT ![r] = @ \cup {"cmd"}]
    /\ UNCHANGED <<iosRunner, req, status, body, headers, name, fileNil, defers, idx,
                   testFailed, testMu, disk, cmdLog>>

\* IOSTarEnd going on to the lock after a failure.
IOSTarEndContinues(r) ==
    /\ pc[r] = "i_tar_run"
    /\ \E ok \in BOOLEAN :
          /\ ok => SourceFileAt(name[r]) # 0 /\ PathOf(runDir[r]) # Gone
          /\ cmdLog' = [cmdLog EXCEPT ![r] =
                           Append(@, [cmd |-> "tar", arg |-> <<>>, ok |-> ok])]
          /\ IF ok
             THEN /\ extracted' = extracted \cup {<<runDir[r], r>>}
                  /\ pc' = [pc EXCEPT ![r] = "i_lock"]
                  /\ UNCHANGED <<status, body, headers>>
             ELSE /\ Respond(r, 400, <<Line("err:tar"), Line("\n"), Line("out:tar")>>)
                  /\ pc' = [pc EXCEPT ![r] = "i_lock"]
                  /\ UNCHANGED extracted
    /\ runDir' = [runDir EXCEPT ![r] = StartDir]
    /\ UNCHANGED <<iosRunner, req, name, fileNil, defers, idx, testFailed,
                   testMu, cwd, apkFiles, dirs, srcIn, effects>>

\* CombinedOutput returns: a failed extraction is answered 400 with error
\* and output.  tar fails without an archive or a directory to write to.
IOSTarEnd(r) ==
    /\ pc[r] = "i_tar_run"
    /\ \E ok \in BOOLEAN :
          /\ ok => SourceFileAt(name[r]) # 0 /\ PathOf(runDir[r]) # Gone
          /\ cmdLog' = [cmdLog EXCEPT ![r] =
                           Append(@, [cmd |-> "tar", arg |-> <<>>, ok |-> ok])]
          /\ IF ok
             THEN /\ extracted' = extracted \cup {<<runDir[r], r>>}
                  /\ pc' = [pc EXCEPT ![r] = "i_lock"]
                  /\ UNCHANGED <<status, body, headers>>
             ELSE /\ Respond(r, 400, <<Line("err:tar"), Line("\n"), Line("out:tar")>>)
                  /\ pc' = [pc EXCEPT ![r] = AfterReturn(defers[r])]
                  /\ UNCHANGED extracted
    /\ runDir' = [runDir EXCEPT ![r] = StartDir]
    /\ UNCHANGED <<iosRunner, req, name, fileNil, defers, idx, testFailed,
                   testMu, cwd, apkFiles, dirs, srcIn, effects>>

\* IOSLock without the wait for the mutex.
IOSLockNoWait(r) ==
    /\ pc[r] = "i_lock"
    /\ testMu' = TRUE
    /\ defers' = [defers EXCEPT ![r] = Append(@, DeferUnlock)]
    /\ effects' = [effects EXCEPT ![r] = @ \cup {"lock"}]
    /\ pc' = [pc EXCEPT ![r] = "i_loop"]
    /\ UNCHANGED <<iosRunner, req, status, body, headers, name, fileNil, idx,
                   testFailed, runDir, disk, cmdLog>>

\* testMu.Lock(); defer testMu.Unlock()
IOSLock(r) ==
    /\ pc[r] = "i_lock"
    /\ ~testMu
    /\ testMu' = TRUE
    /\ defers' = [defers EXCEPT ![r] = Append(@, DeferUnlock)]
    /\ effects' = [effects EXCEPT ![r] = @ \cup {"lock"}]
    /\ pc' = [pc EXCEPT ![r] = "i_loop"]
    /\ UNCHANGED <<iosRunner, req, status, body, headers, name, fileNil, idx,
                   testFailed, runDir, disk, cmdLog>>

\* IOSSchemeStart keeping the start line back.
IOSSchemeStartBuffered(r) ==
    /\ pc[r] = "i_loop"
    /\ idx[r] < Len(testSchemes(r))
    /\ idx' = [idx EXCEPT ![r] = @ + 1]
    /\ Respond(r, 0, <<>>)
    /\ runDir' = [runDir EXCEPT ![r] = cwd]
    /\ pc' = [pc EXCEPT ![r] = "i_test_run"]
    /\ UNCHANGED <<iosRunner, req, name, fileNil, defers, testFailed, testMu,
                   disk, ghost>>

\* The next scheme of the loop: the start line is written and
\* exec.Command("xcodebuild", "test", ...) starts.
IOSSchemeStart(r) ==
    /\ pc[r] = "i_loop"
    /\ idx[r] < Len(testSchemes(r))
    /\ idx' = [idx EXCEPT ![r] = @ + 1]
    /\ Respond(r, 0, <<TestStartMsg(testSchemes(r)[idx[r] + 1],
                                     req[r].test_destination), Line("\n")>>)
    /\ runDir' = [runDir EXCEPT ![r] = cwd]
    /\ pc' = [pc EXCEPT ![r] = "i_test_run"]
    /\ UNCHANGED <<iosRunner, req, name, fileNil, defers, testFailed, testMu,
                   disk, ghost>>

\* IOSSchemeEnd leaving the loop at the first failed scheme.
IOSSchemeEndBreaks(r) ==
    /\ pc[r] = "i_test_run"
    /\ \E ok \in BOOLEAN :
          /\ cmdLog' = [cmdLog EXCEPT ![r] =
                           Append(@, [cmd |-> "xcodebuild",
                                      arg |-> testSchemes(r)[idx[r]], ok |-> ok])]
          /\ IF ok
             THEN /\ Respond(r, 0, <<Line("!!TEST PASSED!!\n"), Line("out:test")>>)
                  /\ UNCHANGED <<testFailed, idx>>
             ELSE /\ Respond(r, 0, <<Line("!!TEST FAILED!!\n"), Line("err:test"),
                                     Line("\n"), Line("out:test")>>)
                  /\ testFailed' = [testFailed EXCEPT ![r] = TRUE]
                  /\ idx' = [idx EXCEPT ![r] = Len(testSchemes(r))]
    /\ pc' = [pc EXCEPT ![r] = "i_loop"]
    /\ runDir' = [runDir EXCEPT ![r] = StartDir]
    /\ UNCHANGED <<iosRunner, req, name, fileNil, defers, testMu, disk,
                   effects>>

\* IOSSchemeEnd calling WriteHeader(400) for a failed scheme.
IOSSchemeEndSetsStatus(r) ==
    /\ pc[r] = "i_test_run"
    /\ \E ok \in BOOLEAN :
          /\ cmdLog' = [cmdLog EXCEPT ![r] =
                           Append(@, [cmd |-> "xcodebuild",
                                      arg |-> testSchemes(r)[idx[r]], ok |-> ok])]
          /\ IF ok
             THEN /\ Respond(r, 0, <<Line("!!TEST PASSED!!\n"), Line("out:test")>>)
                  /\ UNCHANGED testFailed
             ELSE /\ Respond(r, 400, <<Line("!!TEST FAILED!!\n"), Line("err:test"),
                                       Line("\n"), Line("out:test")>>)
                  /\ testFailed' = [testFailed EXCEPT ![r] = TRUE]
    /\ pc' = [pc EXCEPT ![r] = "i_loop"]
    /\ runDir' = [runDir EXCEPT ![r] = StartDir]
    /\ UNCHANGED <<iosRunner, req, name, fileNil, defers, idx, testMu, disk,
                   effects>>

\* CombinedOutput returns: the marker of the scheme and the output.
IOSSchemeEnd(r) ==
    /\ pc[r] = "i_test_run"
    /\ \E ok \in BOOLEAN :
          /\ cmdLog' = [cmdLog EXCEPT ![r] =
                           Append(@, [cmd |-> "xcodebuild",
                                      arg |-> testSchemes(r)[idx[r]], ok |-> ok])]
          /\ IF ok
             THEN /\ Respond(r, 0, <<Line("!!TEST PASSED!!\n"), Line("out:test")>>)
                  /\ UNCHANGED testFailed
             ELSE /\ Respond(r, 0, <<Line("!!TEST FAILED!!\n"), Line("err:test"),
                                     Line("\n"), Line("out:test")>>)
                  /\ testFailed' = [testFailed EXCEPT ![r] = TRUE]
    /\ pc' = [pc EXCEPT ![r] = "i_loop"]
    /\ runDir' = [runDir EXCEPT ![r] = StartDir]
    /\ UNCHANGED <<iosRunner, req, name, fileNil, defers, idx, testMu, disk,
                   effects>>

\* IOSFinish writing the verdict line whatever testFailed is.
IOSFinishAlways(r) ==
    /\ pc[r] = "i_loop"
    /\ idx[r] >= Len(testSchemes(r))
    /\ Respond(r, 0, <<Line("!!ALL TESTS PASSED!!\n")>>)
    /\ pc' = [pc EXCEPT ![r] = AfterReturn(defers[r])]
    /\ UNCHANGED <<iosRunner, req, name, fileNil, defers, idx, testFailed,
                   runDir, testMu, disk, ghost>>

\* The loop is over: the verdict line, and return.
IOSFinish(r) ==
    /\ pc[r] = "i_loop"
    /\ idx[r] >= Len(testSchemes(r))
    /\ IF ~testFailed[r]
       THEN Respond(r, 0, <<Line("!!ALL TESTS PASSED!!\n")>>)
       ELSE UNCHANGED <<status, body, headers>>
    /\ pc' = [pc EXCEPT ![r] = AfterReturn(defers[r])]
    /\ UNCHANGED <<iosRunner, req, name, fileNil, defers, idx, testFailed,
                   runDir, testMu, disk, ghost>>

\* ---- the program -----------------------------------------------------------
Next ==
    \E r \in Req :
       \/ \E q \in Requests : handler(r, q)
       \/ AndroidValidate(r)
       \/ AndroidOpen(r)
       \/ AndroidRead(r)
       \/ AndroidLock(r)
       \/ AndroidInstallStart(r)
       \/ AndroidInstallEnd(r)
       \/ AndroidInstrumentStart(r)
       \/ AndroidInstrumentEnd(r)
       \/ IOSValidate(r)
       \/ IOSChdirTmp(r)
       \/ IOSMkdir(r)
       \/ IOSChdirDir(r)
       \/ IOSOpen(r)
       \/ IOSRead(r)
       \/ IOSTarStart(r)
       \/ IOSTarEnd(r)
       \/ IOSLock(r)
       \/ IOSSchemeStart(r)
       \/ IOSSchemeEnd(r)
       \/ IOSFinish(r)
       \/ RunDeferUnlock(r)
       \/ RunDeferRemove(r)
       \/ RunDeferRemoveAll(r)

Spec == Init /\ [][Next]_vars

\* Valid iOS requests of one scheme only, one more of them in flight.
IOSRequests ==
    {q \in Requests : /\ q.auth = secret /\ q.queryOK
                      /\ q.test_type = testTypeIOS
                      /\ q.test_destination # ""
                      /\ q.test_schemes # <<>>
                      /\ Len(Split(q.test_schemes, ",")) = 1}

NextIOS ==
    \E r \in Req :
       \/ \E q \in IOSRequests : handler(r, q)
       \/ IOSValidate(r)
       \/ IOSChdirTmp(r)
       \/ IOSMkdir(r)
       \/ IOSChdirDir(r)
       \/ IOSOpen(r)
       \/ IOSRead(r)
       \/ IOSTarStart(r)
       \/ IOSTarEnd(r)
       \/ IOSLock(r)
       \/ IOSSchemeStart(r)
       \/ IOSSchemeEnd(r)
       \/ IOSFinish(r)
       \/ RunDeferUnlock(r)
       \/ RunDeferRemoveAll(r)

SpecIOS == InitIOS /\ [][NextIOS]_vars

\* ---- properties --------------------------------------------------------------
Finished(r) == pc[r] \in {"done", "panicked"}

\* r is running a command that the mutex guards.
Guarded(r) == pc[r] \in {"a_install_run", "a_instr_run", "i_test_run"}
\* r waits for the mutex.
Waiting(r) == pc[r] \in {"a_lock", "i_lock"}

\* C1: at most one request at a time is executing a lock-guarded external
\* command (adb install, adb instrument, xcodebuild test).
MutualExclusion == \A r, o \in Req : Guarded(r) /\ Guarded(o) => r = o

\* A request runs a guarded command while another one waits for the mutex.
MutualExclusionWitness ==
    \E r, o \in Req : r # o /\ Guarded(r) /\ Waiting(o) /\ testMu

\* r has started the first command of its sequence and not ended the last.
InSequence(r) ==
    \/ pc[r] \in {"a_install_run", "a_instr", "a_instr_run", "i_test_run"}
    \/ pc[r] = "i_loop" /\ 0 < idx[r] /\ idx[r] < Len(testSchemes(r))
\* o starts a guarded command in this step.
StartsGuarded(o) == ~Guarded(o) /\ Guarded(o)'

\* C2: from the start of a request's first guarded command to the end of
\* its last one (install..instrument, first..last scheme test), no other
\* request starts a guarded command.
NoInterleaving ==
    [][\A r, o \in Req : r # o /\ InSequence(r) => ~StartsGuarded(o)]_vars

\* A request is between two commands of its sequence while another waits.
NoInterleavingWitness ==
    \E r, o \in Req :
       /\ r # o /\ Waiting(o)
       /\ \/ pc[r] = "a_instr"
          \/ pc[r] = "i_loop" /\ 0 < idx[r] /\ idx[r] < Len(testSchemes(r))

\* What request r created and is still on disk.
Leftovers(r) ==
    {<<"apk", s>> : s \in {x \in Suffix : apkFiles[x] = r}}
    \cup {<<"dir", d>> : d \in {x \in Req : x = r /\ dirs[x] # <<>>}}
    \cup {<<"source.tgz", d>> : d \in {x \in Req : srcIn[x] = r}}
    \cup {<<"content", e[1]>> : e \in {x \in extracted : x[2] = r}}

\* C3: once a request has finished, nothing it created is still on disk:
\* not its apk file, not its staging directory, source.tgz or content.
CleanupOnEveryExit == \A r \in Req : Finished(r) => Leftovers(r) = {}

\* C4: a request whose Authorization header is absent or wrong is answered
\* 401 with an empty body at once, whatever its other parameters, and has
\* done nothing else: no file, directory, chdir, lock or command.
AuthorizationGate ==
    \A r \in Req :
       pc[r] \notin {"idle", "absent"} /\ req[r].auth # secret =>
          /\ pc[r] = "done"
          /\ status[r] = 401 /\ body[r] = <<>>
          /\ effects[r] = {} /\ cmdLog[r] = <<>> /\ defers[r] = <<>>
          /\ Leftovers(r) = {}

\* A request with a wrong secret and a query that does not parse was
\* answered, while another request is at work under the mutex.
AuthorizationGateWitness ==
    \E r, o \in Req :
       /\ pc[r] = "done" /\ req[r].auth = "wrong" /\ ~req[r].queryOK
       /\ Guarded(o)

Started(r) == pc[r] \notin {"idle", "absent"}
\* Nothing was done for r but to answer it.
OnlyAnswered(r, code, lines) ==
    /\ pc[r] = "done"
    /\ status[r] = code /\ body[r] = lines
    /\ effects[r] = {} /\ cmdLog[r] = <<>> /\ defers[r] = <<>>
    /\ Leftovers(r) = {}
UnknownType(q) == q.test_type \notin {testTypeAndroid, testTypeIOS}

\* C5 as stated: every request with the right secret whose test_type is
\* absent or neither android nor ios is answered 400 "must specify
\* 'test_type'", and no runner step is executed.
DispatchUnknownType ==
    \A r \in Req :
       Started(r) /\ req[r].auth = secret /\ UnknownType(req[r]) =>
          OnlyAnswered(r, 400, <<Line("must specify 'test_type'")>>)

\* C5 as amended: the same, for the requests whose query string parses.
DispatchUnknownTypeParsed ==
    \A r \in Req :
       /\ Started(r) /\ req[r].auth = secret /\ req[r].queryOK
       /\ UnknownType(req[r])
       => OnlyAnswered(r, 400, <<Line("must specify 'test_type'")>>)

\* Requests with test_type absent and with test_type "web" were answered.
DispatchUnknownTypeWitness ==
    \E r, o \in Req :
       /\ pc[r] = "done" /\ req[r].auth = secret /\ req[r].queryOK
       /\ req[r].test_type = ""
       /\ pc[o] = "done" /\ req[o].auth = secret /\ req[o].queryOK
       /\ req[o].test_type = "web"

\* r was dispatched to runAndroidTest / runIOSTest and is past its checks.
PastAndroidCheck(r) ==
    /\ pc[r] \notin {"idle", "absent", "runAndroidTest"}
    /\ req[r].auth = secret /\ req[r].queryOK
    /\ req[r].test_type = testTypeAndroid
PastIOSCheck(r) ==
    /\ pc[r] \notin {"idle", "absent", "runIOSTest"}
    /\ req[r].auth = secret /\ req[r].queryOK
    /\ req[r].test_type = testTypeIOS /\ iosRunner

\* C6: an Android request without test_package, and an iOS request
\* without test_destination or without test_schemes, is answered 400 with
\* "must specify '<field>'" and has then written no file, made no
\* directory, not changed directory, not locked and run no command.
ValidationBeforeIO ==
    \A r \in Req :
       /\ PastAndroidCheck(r) /\ req[r].test_package = "" =>
             OnlyAnswered(r, 400, <<Line("must specify 'test_package'")>>)
       /\ PastIOSCheck(r) /\ req[r].test_destination = "" =>
             OnlyAnswered(r, 400, <<Line("must specify 'test_destination'")>>)
       /\ PastIOSCheck(r) /\ req[r].test_destination # ""
                          /\ req[r].test_schemes = <<>> =>
             OnlyAnswered(r, 400, <<Line("must specify 'test_schemes'")>>)

\* An Android request without package and an iOS request without schemes
\* were answered.
ValidationBeforeIOWitness ==
    \E r, o \in Req :
       /\ PastAndroidCheck(r) /\ req[r].test_package = ""
       /\ PastIOSCheck(o) /\ req[o].test_destination # ""
       /\ req[o].test_schemes = <<>>

\* r is an iOS request that has reached the scheme loop.
InLoop(r) == pc[r] \in {"i_loop", "i_test_run"}
ReachedLoop(r) ==
    req[r].test_type = testTypeIOS /\ "lock" \in effects[r]
IsTest(c) == c.cmd = "xcodebuild"
IsMarker(l) == l.text \in {"!!TEST PASSED!!\n", "!!TEST FAILED!!\n"}
Tests(r) == SelectSeq(cmdLog[r], IsTest)
Markers(r) == SelectSeq(body[r], IsMarker)

\* C7: in the scheme loop the test command is invoked once per scheme of
\* the comma-split list, in order, whatever earlier schemes did; every
\* scheme has one marker in the response, FAILED or PASSED as its command
\* did, in scheme order; once the loop is left every scheme was run.
PartialFailure ==
    \A r \in Req :
       ReachedLoop(r) =>
          /\ Len(Tests(r)) <= Len(testSchemes(r))
          /\ ~InLoop(r) => Len(Tests(r)) = Len(testSchemes(r))
          /\ Len(Markers(r)) = Len(Tests(r))
          /\ \A i \in 1..Len(Tests(r)) :
                /\ Tests(r)[i].arg = testSchemes(r)[i]
                /\ Markers(r)[i].text = IF Tests(r)[i].ok
                                         THEN "!!TEST PASSED!!\n"
                                         ELSE "!!TEST FAILED!!\n"

\* A request of two schemes is finished; the first failed, the second
\* passed.
PartialFailureWitness ==
    \E r \in Req :
       /\ ReachedLoop(r) /\ Finished(r)
       /\ Len(testSchemes(r)) = 2 /\ Len(Tests(r)) = 2
       /\ ~Tests(r)[1].ok /\ Tests(r)[2].ok

AllPassed == Line("!!ALL TESTS PASSED!!\n")
Has(lines, l) == \E i \in 1..Len(lines) : lines[i] = l

\* C8: the response of an iOS request that reached the scheme loop has the
\* line "!!ALL TESTS PASSED!!" iff no scheme's command failed, and the line
\* is then the last thing written; it is never there while the loop runs.
OverallVerdict ==
    \A r \in Req :
       ReachedLoop(r) =>
          /\ InLoop(r) => ~Has(body[r], AllPassed)
          /\ ~InLoop(r) =>
                /\ Has(body[r], AllPassed) <=>
                      \A i \in 1..Len(Tests(r)) : Tests(r)[i].ok
                /\ Has(body[r], AllPassed) =>
                      /\ body[r][Len(body[r])] = AllPassed
                      /\ ~Has(SubSeq(body[r], 1, Len(body[r]) - 1), AllPassed)

\* A request of two schemes is finished and both passed.
OverallVerdictWitness ==
    \E r \in Req :
       /\ ReachedLoop(r) /\ Finished(r) /\ Has(body[r], AllPassed)
       /\ Len(Tests(r)) = 2

\* r takes a step.
Steps(r) == pc'[r] # pc[r] \/ defers'[r] # defers[r]
\* r was refused because its artifact path exists.
Refused(r) == Has(body[r], Line("err:file exists"))
\* The artifact files of requests other than r are as they were.
OthersFilesKept(r) ==
    /\ \A s \in Suffix : apkFiles[s] \notin {0, r} => apkFiles'[s] = apkFiles[s]
    /\ \A d \in Req : srcIn[d] \notin {0, r} => srcIn'[d] = srcIn[d]

\* C9: a request whose artifact path exists when it creates the file is
\* refused with 400; the refused request neither overwrites nor deletes the
\* existing file; and a tool never reads an artifact that another request
\* staged.
ExclusiveStaging ==
    [][\A r \in Req :
         /\ pc[r] = "a_open" /\ pc'[r] # "a_open" /\ apkFiles[name'[r]] # 0
               => status'[r] = 400 /\ pc'[r] = "done" /\ OthersFilesKept(r)
         /\ pc[r] = "i_open" /\ pc'[r] # "i_open" /\ SourceFileAt(name[r]) # 0
               => status'[r] = 400 /\ OthersFilesKept(r)
         /\ Steps(r) /\ Refused(r) => OthersFilesKept(r)
         /\ pc[r] = "a_install" /\ pc'[r] = "a_install_run"
               => apkFiles[name[r]] = r
         /\ pc[r] = "i_tar" /\ pc'[r] = "i_tar_run"
               => SourceFileAt(name[r]) \in {0, r}]_vars

\* C10: every request ends with a response; a request that failed in
\* validation, staging, a tool or the environment has a body that tells the
\* failure (the 401 of a bad secret and the 500 of the build without
\* runIOSTest are a status only).
NoErrorSwallowed ==
    \A r \in Req :
       /\ pc[r] \notin {"ret_panic", "panicked"}
       /\ /\ Finished(r) /\ status[r] \in {400, 500}
          /\ iosRunner \/ req[r].test_type # testTypeIOS
          => body[r] # <<>>

\* r holds the mutex: it has locked it and its deferred Unlock is pending.
Holds(r) ==
    "lock" \in effects[r] /\ \E i \in 1..Len(defers[r]) : defers[r][i] = DeferUnlock
\* r has locked the mutex and released it again.
Released(r) == "lock" \in effects[r] /\ ~Holds(r)

\* C11: a request that acquired the mutex has removed its artifact (apk
\* file, staging directory) before it releases the mutex: once it has
\* released, nothing it created is on disk.
CleanupBeforeRelease == \A r \in Req : Released(r) => Leftovers(r) = {}

\* r's staging directory was created inside the staging directory of o.
NestedIn(r, o) == dirs[o] # <<>> /\ dirs[r] = dirs[o] \o <<name[r]>>

\* C12: the working directory is changed by the Chdir steps of iOS
\* requests only, and always before the request has locked the mutex, so
\* a relative-path step of another request can meet it (the witness).
WorkingDirUnguarded ==
    [][cwd' # cwd =>
         \E r \in Req : /\ pc[r] \in {"i_chdir", "i_chdir2"} /\ pc'[r] # pc[r]
                         /\ "lock" \notin effects[r]
                         /\ req[r].test_type = testTypeIOS]_vars

\* With two iOS requests in flight, the os.Mkdir of one ran while the
\* working directory was the other's staging directory.
WorkingDirRace ==
    \E r, o \in Req :
       /\ r # o /\ NestedIn(r, o) /\ cwd = DirOf(o)
       /\ ~Finished(r) /\ ~Finished(o)

\* r is inside one of the four external commands.
InCommand(r) ==
    pc[r] \in {"a_install_run", "a_instr_run", "i_tar_run", "i_test_run"}
\* o obtains the mutex in this step.
Acquires(o) == Waiting(o) /\ pc'[o] # pc[o]

\* C13: as long as a request stays inside an external command (install,
\* instrument, extract or xcodebuild test), it has not completed and no
\* other request gets past the lock acquisition.
HangPropagation ==
    [][\A r, o \in Req :
          r # o /\ InCommand(r) /\ pc'[r] = pc[r] =>
             ~Finished(r)' /\ ~Acquires(o)]_vars

\* C13 (amended): as long as a request stays inside a command that runs
\* under the mutex (install, instrument, xcodebuild test), it has not
\* completed, no other request gets past the lock acquisition and none
\* starts a guarded command; the extract command is not among them.
HangPropagationGuarded ==
    [][\A r, o \in Req :
          r # o /\ Guarded(r) /\ pc'[r] = pc[r] =>
             /\ ~Finished(r)'
             /\ ~Acquires(o)
             /\ ~Guarded(o)'
             /\ "lock" \notin effects[o] => "lock" \notin effects'[o]]_vars

\* A request that passed staging is blocked behind the xcodebuild test of
\* another one.
HangPropagationWitness ==
    \E r, o \in Req :
       /\ r # o /\ pc[r] = "i_test_run" /\ Holds(r)
       /\ Waiting(o) /\ "lock" \notin effects[o]

\* The steps of r from the handler's dispatch up to the lock acquisition.
StagingStep(r) ==
    \/ AndroidValidate(r) \/ AndroidOpen(r) \/ AndroidRead(r)
    \/ IOSValidate(r) \/ IOSChdirTmp(r) \/ IOSMkdir(r) \/ IOSChdirDir(r)
    \/ IOSOpen(r) \/ IOSRead(r) \/ IOSTarStart(r) \/ IOSTarEnd(r)
Staging(r) ==
    pc[r] \in {"runAndroidTest", "a_open", "a_read", "runIOSTest", "i_chdir",
               "i_mkdir", "i_chdir2", "i_open", "i_read", "i_tar", "i_tar_run"}
\* r was answered by the authorization or a parameter check.
Rejected(r) ==
    /\ pc[r] = "done"
    /\ \/ status[r] = 401
       \/ \E l \in {"err:ParseQuery", "must specify 'test_type'",
                     "must specify 'test_package'",
                     "must specify 'test_destination'",
                     "must specify 'test_schemes'"} : Has(body[r], Line(l))

\* C14: whoever holds the mutex, a request that is in validation or
\* staging can take its next step, no such step waits for or touches the
\* mutex, and a request rejected by authorization or validation was
\* answered without ever having locked or waited.
StagingNotSerialized ==
    /\ \A r \in Req : Staging(r) => ENABLED StagingStep(r)
    /\ \A r \in Req : Staging(r) => "lock" \notin effects[r]
    /\ \A r \in Req : Rejected(r) => effects[r] = {} /\ defers[r] = <<>>

\* While one request is inside a guarded command, another one has created
\* its artifact file and is staging.
StagingNotSerializedWitness ==
    \E r, o \in Req :
       /\ r # o /\ Guarded(r) /\ testMu
       /\ pc[o] \in {"a_read", "i_read", "i_tar_run"}

\* Every request that locked the mutex and has returned has unlocked it.
ReleasedOnExit == \A r \in Req : Finished(r) => ~Holds(r)
\* The mutex is locked exactly while one request holds it, so an Unlock is
\* only ever run by the holder.
HeldByOne ==
    /\ testMu <=> \E r \in Req : Holds(r)
    /\ \A r, o \in Req : Holds(r) /\ Holds(o) => r = o
\* A request that is under way is never stuck, except at the lock while
\* another request holds it.
NoStuck ==
    \A r \in Req :
       Started(r) /\ ~Finished(r) =>
          \/ ENABLED (StagingStep(r) \/ AndroidLock(r) \/ IOSLock(r)
                        \/ AndroidInstallStart(r) \/ AndroidInstallEnd(r)
                        \/ AndroidInstrumentStart(r)
                        \/ AndroidInstrumentEnd(r) \/ IOSSchemeStart(r)
                        \/ IOSSchemeEnd(r) \/ IOSFinish(r)
                        \/ RunDeferUnlock(r) \/ RunDeferRemove(r)
                        \/ RunDeferRemoveAll(r))
          \/ Waiting(r) /\ \E o \in Req : o # r /\ Holds(o) /\ ~Finished(o)
\* A request that has ended has ended with a response.
EndsWithResponse == \A r \in Req : Finished(r) => pc[r] = "done"

\* C15: the mutex is unlocked on every exit path of a request that locked
\* it, it is unlocked by its holder only, no request is ever stuck but at
\* the lock behind a live holder, and a request that has ended has ended
\* with a response.
LockReleaseAndProgress ==
    ReleasedOnExit /\ HeldByOne /\ NoStuck /\ EndsWithResponse

IsAndroid(r) == Started(r) /\ req[r].test_type = testTypeAndroid
InstallFailed(r) == Len(cmdLog[r]) >= 1 /\ ~cmdLog[r][1].ok
InstrumentFailed(r) == Len(cmdLog[r]) >= 2 /\ ~cmdLog[r][2].ok
ErrorAndOutput(c) == <<Line("err:" \o c), Line("\n"), Line("out:" \o c)>>

\* C16: an Android request whose install command failed is answered 400
\* with the error text and the install output and has returned without
\* invoking the instrument command; one whose install succeeded and whose
\* instrument command failed is answered 400 with error text and output.
AndroidShortCircuit ==
    \A r \in Req :
       IsAndroid(r) =>
          /\ InstallFailed(r) =>
                /\ Len(cmdLog[r]) = 1
                /\ pc[r] \in {"ret", "done"}
                /\ status[r] = 400 /\ body[r] = ErrorAndOutput("install")
          /\ pc[r] \in {"a_instr", "a_instr_run"} =>
                Len(cmdLog[r]) = 1 /\ cmdLog[r][1].ok
          /\ InstrumentFailed(r) =>
                /\ Len(cmdLog[r]) = 2 /\ cmdLog[r][1].ok
                /\ cmdLog[r][2].cmd = "instrument"
                /\ pc[r] \in {"ret", "done"}
                /\ status[r] = 400 /\ body[r] = ErrorAndOutput("instrument")

\* One request has ended on a failed install, another on a failed
\* instrument command.
AndroidShortCircuitWitness ==
    \E r, o \in Req :
       /\ IsAndroid(r) /\ pc[r] = "done" /\ InstallFailed(r)
       /\ IsAndroid(o) /\ pc[o] = "done" /\ InstrumentFailed(o)

TarFailed(r) ==
    \E i \in 1..Len(cmdLog[r]) : cmdLog[r][i].cmd = "tar" /\ ~cmdLog[r][i].ok

\* C17: an iOS request whose extraction command failed is answered 400
\* with error text and output, has returned, has invoked no scheme test
\* command and has never locked the mutex.
ExtractionFailureTerminal ==
    \A r \in Req :
       TarFailed(r) =>
          /\ status[r] = 400 /\ body[r] = ErrorAndOutput("tar")
          /\ pc[r] \in {"ret", "done"}
          /\ Len(cmdLog[r]) = 1 /\ Tests(r) = <<>>
          /\ "lock" \notin effects[r] /\ ~Holds(r)

\* A request has ended on a failed extraction while another one holds the
\* mutex.
ExtractionFailureWitness ==
    \E r, o \in Req :
       r # o /\ TarFailed(r) /\ pc[r] = "done" /\ Holds(o)

AndroidSucceeded(r) ==
    /\ "file" \in effects[r]
    /\ cmdLog[r] = <<[cmd |-> "install", arg |-> <<>>, ok |-> TRUE],
                     [cmd |-> "instrument", arg |-> <<>>, ok |-> TRUE]>>

\* C18: an Android request that has ended with a response has status 200
\* iff its staging, its install command and its instrument command all
\* succeeded, and the body is then the instrument output and nothing else.
AndroidSuccessResult ==
    \A r \in Req :
       IsAndroid(r) /\ pc[r] = "done" =>
          /\ FinalStatus(r) = 200 <=> AndroidSucceeded(r)
          /\ AndroidSucceeded(r) => body[r] = <<Line("out:instrument")>>

\* An Android request has ended with 200, another with another status.
AndroidSuccessWitness ==
    \E r, o \in Req :
       /\ IsAndroid(r) /\ pc[r] = "done" /\ AndroidSucceeded(r)
       /\ FinalStatus(r) = 200
       /\ IsAndroid(o) /\ pc[o] = "done" /\ FinalStatus(o) = 400

\* C19: WriteHeader is called at most once for a request and never after
\* the status or a body byte has gone out, so a status other than 200 is
\* the one of that single early call; an iOS request that reached the
\* scheme loop never calls it and its status is 200 whatever its schemes
\* did.
StatusFixedBeforeBody ==
    \A r \in Req :
       /\ Len(headers[r]) <= 1
       /\ \A i \in 1..Len(headers[r]) : ~headers[r][i].late
       /\ status[r] \notin {0, 200} =>
             headers[r] = <<[code |-> status[r], late |-> FALSE]>>
       /\ body[r] # <<>> => status[r] # 0
       /\ ReachedLoop(r) =>
             /\ headers[r] = <<>>
             /\ FinalStatus(r) = 200
             /\ pc[r] # "i_loop" \/ idx[r] > 0 => status[r] = 200

\* An iOS request has ended with status 200 after a failed scheme, and
\* another request was answered with an error status and a body.
StatusFixedWitness ==
    \E r, o \in Req :
       /\ ReachedLoop(r) /\ pc[r] = "done" /\ testFailed[r]
       /\ status[r] = 200
       /\ pc[o] = "done" /\ status[o] = 400 /\ body[o] # <<>>

SchemeStartLines(r, i) ==
    <<TestStartMsg(testSchemes(r)[i], req[r].test_destination), Line("\n")>>
SchemeResultLines(ok) ==
    IF ok THEN <<Line("!!TEST PASSED!!\n"), Line("out:test")>>
    ELSE <<Line("!!TEST FAILED!!\n"), Line("err:test"), Line("\n"),
           Line("out:test")>>
\* What the first n schemes of r have put into the response.
RECURSIVE SchemeBlocks(_, _)
SchemeBlocks(r, n) ==
    IF n = 0 THEN <<>>
    ELSE SchemeBlocks(r, n - 1) \o SchemeStartLines(r, n)
            \o SchemeResultLines(Tests(r)[n].ok)

\* C20: while the test command of scheme i runs, the response is the
\* complete blocks (start line, marker, output) of the schemes before i
\* followed by the start line of i; between two schemes it is the complete
\* blocks of the schemes done; after the loop only the verdict line
\* follows; and the request holds the mutex all through the loop.
StreamingOrder ==
    \A r \in Req :
       ReachedLoop(r) =>
          /\ InLoop(r) => Holds(r) /\ testMu
          /\ pc[r] = "i_test_run" =>
                /\ Len(Tests(r)) = idx[r] - 1
                /\ body[r] = SchemeBlocks(r, idx[r] - 1)
                                \o SchemeStartLines(r, idx[r])
          /\ pc[r] = "i_loop" =>
                /\ Len(Tests(r)) = idx[r]
                /\ body[r] = SchemeBlocks(r, idx[r])
          /\ ~InLoop(r) =>
                \/ body[r] = SchemeBlocks(r, Len(testSchemes(r)))
                \/ body[r] = SchemeBlocks(r, Len(testSchemes(r))) \o <<AllPassed>>

\* The test command of a second scheme runs after a first one that failed,
\* while another request waits for the mutex.
StreamingOrderWitness ==
    \E r, o \in Req :
       /\ ReachedLoop(r) /\ pc[r] = "i_test_run" /\ idx[r] = 2
       /\ ~Tests(r)[1].ok
       /\ r # o /\ Waiting(o)
====
